---- MODULE Spec2Model ----
(***************************************************************************)
(* A model of the KZFR show picker (src/app.py): the cached fetch of the   *)
(* Studio Creek catalog and archive, the page script that resolves a show  *)
(* and a time to an audio URL, and the slug normalisation it uses.         *)
(*                                                                         *)
(* Strings are TLA+ strings; a character is a string of length one.        *)
(* Python's None is the model value None.                                  *)
(***************************************************************************)
EXTENDS Integers, Sequences, FiniteSets, TLC

VARIABLES
    \* ---- slug normalisation, applied to a title and to its own result
    norm_title,         \* the show title being normalised
    norm_pc,            \* "start", "once", "twice"
    norm_once,          \* normalized_show_name(title)
    norm_twice,         \* normalized_show_name(normalized_show_name(title))
    \* ---- the cached fetch (st.cache_data around read_studio_creek_website_data)
    cache,              \* None, or [value |-> <<show_titles, rows>>, age |-> minutes]
    fetch_pc,           \* "idle", "shows", "pages", "build"
    shows_dict,         \* the titles of the shows-list response
    archives_page,      \* the page number of the request in flight
    archives_dict_data, \* the records accumulated so far
    requested,          \* history: the page numbers requested by this fetch
    responses,          \* history: the page responses received by this fetch
    get_ctx,            \* history: what the running get() found in the cache
    result,             \* what the last get() gave its caller
    \* ---- the page script
    show_titles,        \* the catalog the page was given
    archives_df,        \* the episode table the page was given
    session_state,      \* st.session_state
    query_params,       \* st.query_params: the page's address
    page,               \* what the last run of the script rendered
    shared_from         \* history: the run whose link the last run opened

slug_vars  == <<norm_title, norm_pc, norm_once, norm_twice>>
cache_vars == <<cache, fetch_pc, shows_dict, archives_page, archives_dict_data,
                requested, responses, get_ctx, result>>
page_vars  == <<show_titles, archives_df, session_state, query_params, page,
                shared_from>>
vars == <<slug_vars, cache_vars, page_vars>>

None == "None"

(***************************************************************************)
(* Characters and strings.                                                 *)
(***************************************************************************)
Ch(s, i) == SubSeq(s, i, i)

UpperLetters == "ABCDEFGHIJKLMNOPQRSTUVWXYZ"
LowerLetters == "abcdefghijklmnopqrstuvwxyz"
DigitChars   == "0123456789"

CharsOf(s) == {Ch(s, i) : i \in 1..Len(s)}

DigitSet == CharsOf(DigitChars)

IsDigit(c) == c \in DigitSet

\* \w of Python's re on str: letters, digits and the underscore.
WordChars == CharsOf(UpperLetters) \cup CharsOf(LowerLetters) \cup DigitSet \cup {"_"}

IsWordChar(c) == c \in WordChars

\* \s of Python's re on str.
SpaceChars == {" ", "\t", "\n", "\r", "\f"}

IsSpaceChar(c) == c \in SpaceChars

LowerOf ==
    [c \in CharsOf(UpperLetters) |->
        Ch(LowerLetters, CHOOSE i \in 1..Len(UpperLetters) : Ch(UpperLetters, i) = c)]

\* str.lower() on one character.
LowerChar(c) == IF c \in DOMAIN LowerOf THEN LowerOf[c] ELSE c

RECURSIVE MapChars(_, _, _)
\* The string built from s[i..] by keeping the characters Keep accepts.
MapChars(s, i, keepHyphen) ==
    IF i > Len(s) THEN ""
    ELSE LET c == Ch(s, i)
             keep == IsWordChar(c) \/ IsSpaceChar(c) \/ (keepHyphen /\ c = "-")
         IN  (IF keep THEN c ELSE "") \o MapChars(s, i + 1, keepHyphen)

\* re.sub(r'[^\w\s]', '', s)
ReSubNonWordNonSpace(s) == MapChars(s, 1, FALSE)

RECURSIVE ReplaceFrom(_, _, _, _)
\* str.replace(old, new) from position i: non-overlapping, left to right.
ReplaceFrom(s, i, old, new) ==
    IF i > Len(s) THEN ""
    ELSE IF i + Len(old) - 1 <= Len(s) /\ SubSeq(s, i, i + Len(old) - 1) = old
         THEN new \o ReplaceFrom(s, i + Len(old), old, new)
         ELSE Ch(s, i) \o ReplaceFrom(s, i + 1, old, new)

StrReplace(s, old, new) == ReplaceFrom(s, 1, old, new)

RECURSIVE LowerFrom(_, _)
LowerFrom(s, i) == IF i > Len(s) THEN "" ELSE LowerChar(Ch(s, i)) \o LowerFrom(s, i + 1)

StrLower(s) == LowerFrom(s, 1)

\* A slip in the pattern ([^\w\s-]) that lets hyphens through.
normalized_show_name_keeps_hyphens(show_selected) ==
    StrLower(StrReplace(StrReplace(MapChars(show_selected, 1, TRUE), "  ", " "), " ", "-"))

\* src/app.py 343-348
normalized_show_name(show_selected) ==
    StrLower(StrReplace(StrReplace(ReSubNonWordNonSpace(show_selected), "  ", " "), " ", "-"))

(***************************************************************************)
(* The slug specification: every title over a small alphabet, normalised   *)
(* once and then once more.                                                *)
(***************************************************************************)
MaxTitleLen == 3

TitleAlphabet == {"A", "b", " ", "!", "-", "_"}

RECURSIVE StringsUpTo(_)
StringsUpTo(n) ==
    IF n = 0 THEN {""}
    ELSE LET S == StringsUpTo(n - 1) IN S \cup {s \o c : s \in S, c \in TitleAlphabet}

SlugInit ==
    /\ norm_title \in StringsUpTo(MaxTitleLen)
    /\ norm_pc = "start"
    /\ norm_once = None
    /\ norm_twice = None

NormalizeOnce ==
    /\ norm_pc = "start"
    /\ norm_once' = normalized_show_name(norm_title)
    /\ norm_pc' = "once"
    /\ UNCHANGED <<norm_title, norm_twice>>
    /\ UNCHANGED <<cache_vars, page_vars>>

NormalizeTwice ==
    /\ norm_pc = "once"
    /\ norm_twice' = normalized_show_name(norm_once)
    /\ norm_pc' = "twice"
    /\ UNCHANGED <<norm_title, norm_once>>
    /\ UNCHANGED <<cache_vars, page_vars>>

(***************************************************************************)
(* Dates and times: datetime values and the two string formats of the     *)
(* page, '%Y-%m-%d_%H-%M-%S' and '%m/%d/%Y @ %I:%M %p'.                     *)
(***************************************************************************)
\* A raised ValueError, and Python's None where a datetime is expected.
ValueError == [exc |-> "ValueError"]
NoDateTime == [none |-> TRUE]

DateTime(y, mo, d, h, mi, s) ==
    [year |-> y, month |-> mo, day |-> d, hour |-> h, minute |-> mi, second |-> s]

DigitValues == [c \in DigitSet |-> (CHOOSE i \in 1..10 : Ch(DigitChars, i) = c) - 1]

DigitVal(c) == DigitValues[c]

Pad2(n) == Ch(DigitChars, (n \div 10) + 1) \o Ch(DigitChars, (n % 10) + 1)

Pad4(n) == Pad2(n \div 100) \o Pad2(n % 100)

IsLeap(y) == (y % 4 = 0 /\ y % 100 # 0) \/ y % 400 = 0

DaysInMonth(y, mo) ==
    IF mo = 2 THEN (IF IsLeap(y) THEN 29 ELSE 28)
    ELSE IF mo \in {4, 6, 9, 11} THEN 30 ELSE 31

CANONICAL_FORMAT == <<"Y", "-", "m", "-", "d", "_", "H", "-", "M", "-", "S">>
READABLE_FORMAT  == <<"m", "/", "d", "/", "Y", " ", "@", " ", "I", ":", "M", " ", "p">>

NumericDirectives == {"Y", "m", "d", "H", "I", "M", "S"}

\* The values each numeric directive's pattern of _strptime accepts.
DirectiveRange(tok) ==
    CASE tok = "Y" -> 0..9999
      [] tok = "m" -> 1..12
      [] tok = "d" -> 1..31
      [] tok = "H" -> 0..23
      [] tok = "I" -> 1..12
      [] tok = "M" -> 0..59
      [] tok = "S" -> 0..61

RECURSIVE DigitRunEnd(_, _)
\* The first position at or after pos that holds no digit.
DigitRunEnd(s, pos) ==
    IF pos <= Len(s) /\ IsDigit(Ch(s, pos)) THEN DigitRunEnd(s, pos + 1) ELSE pos

RECURSIVE SpaceRunEnd(_, _)
SpaceRunEnd(s, pos) ==
    IF pos <= Len(s) /\ IsSpaceChar(Ch(s, pos)) THEN SpaceRunEnd(s, pos + 1) ELSE pos

RECURSIVE StrToInt(_, _, _)
\* int(s[pos..last])
StrToInt(s, pos, last) ==
    IF last < pos THEN 0 ELSE 10 * StrToInt(s, pos, last - 1) + DigitVal(Ch(s, last))

\* No directive matched yet: -1 for a number, "" for AM/PM.
NoFields == [tok \in NumericDirectives \cup {"p"} |-> IF tok = "p" THEN "" ELSE -1]
NoMatch == [ok |-> FALSE, f |-> NoFields]

RECURSIVE Scan(_, _, _, _, _)
\* The match of s[pos..] against fmt[k..]: the fields found, or no match.  Every
\* numeric directive of the two formats is followed by a character that is no digit
\* (or by the end), so a directive matches exactly when the whole run of digits at
\* pos is one it accepts: four digits for %Y, one or two for the others.
Scan(s, fmt, k, pos, acc) ==
    IF k > Len(fmt)
    THEN (IF pos = Len(s) + 1 THEN [ok |-> TRUE, f |-> acc]
          ELSE NoMatch)                                   \* unconverted data remains
    ELSE LET tok == fmt[k] IN
         IF tok \in NumericDirectives
         THEN LET e == DigitRunEnd(s, pos)
                  n == e - pos
                  lenOk == IF tok = "Y" THEN n = 4 ELSE n \in {1, 2}
              IN  IF lenOk /\ StrToInt(s, pos, e - 1) \in DirectiveRange(tok)
                  THEN Scan(s, fmt, k + 1, e, [acc EXCEPT ![tok] = StrToInt(s, pos, e - 1)])
                  ELSE NoMatch
         ELSE IF tok = " "        \* whitespace in a format matches \s+
         THEN LET e == SpaceRunEnd(s, pos)
              IN  IF e > pos THEN Scan(s, fmt, k + 1, e, acc) ELSE NoMatch
         ELSE IF tok = "p"        \* AM or PM, in any case
         THEN IF pos + 1 <= Len(s) /\ StrLower(SubSeq(s, pos, pos + 1)) \in {"am", "pm"}
              THEN Scan(s, fmt, k + 1, pos + 2,
                        [acc EXCEPT !["p"] = StrLower(SubSeq(s, pos, pos + 1))])
              ELSE NoMatch
         ELSE IF pos <= Len(s) /\ Ch(s, pos) = tok
              THEN Scan(s, fmt, k + 1, pos + 1, acc)
              ELSE NoMatch

\* The hour of the day from %H, or from %I and %p.
HourOf(f) ==
    IF f["H"] # -1 THEN f["H"]
    ELSE IF f["I"] = -1 THEN 0
    ELSE IF f["p"] = "pm" THEN (IF f["I"] = 12 THEN 12 ELSE f["I"] + 12)
    ELSE (IF f["I"] = 12 THEN 0 ELSE f["I"])

\* datetime.strptime(s, fmt): a datetime, or ValueError.
strptime(s, fmt) ==
    LET m == Scan(s, fmt, 1, 1, NoFields)
        f == m.f
    IN
    IF ~m.ok THEN ValueError
    ELSE IF \/ f["Y"] < 1
            \/ f["d"] > DaysInMonth(f["Y"], f["m"])
            \/ f["S"] > 59
         THEN ValueError
         ELSE DateTime(f["Y"], f["m"], f["d"], HourOf(f), f["M"],
                       IF f["S"] = -1 THEN 0 ELSE f["S"])

\* dt.strftime('%Y-%m-%d')
strftime_date(dt) == Pad4(dt.year) \o "-" \o Pad2(dt.month) \o "-" \o Pad2(dt.day)

\* dt.strftime('%H-%M-%S')
strftime_time(dt) == Pad2(dt.hour) \o "-" \o Pad2(dt.minute) \o "-" \o Pad2(dt.second)

\* dt.strftime('%Y-%m-%d_%H-%M-%S')
strftime_canonical(dt) == strftime_date(dt) \o "_" \o strftime_time(dt)

\* dt.strftime('%m/%d/%Y @ %I:%M %p')
strftime_readable(dt) ==
    LET h12 == IF dt.hour % 12 = 0 THEN 12 ELSE dt.hour % 12
    IN  Pad2(dt.month) \o "/" \o Pad2(dt.day) \o "/" \o Pad4(dt.year) \o " @ "
        \o Pad2(h12) \o ":" \o Pad2(dt.minute) \o " "
        \o (IF dt.hour < 12 THEN "AM" ELSE "PM")

(***************************************************************************)
(* The Studio Creek API as the fetch sees it.  A raw archive record holds  *)
(* the keys the fetch reads; has_audio is FALSE for a record with no       *)
(* 'audio' object and has_image is FALSE for one with no 'image' object.   *)
(* The start of a record is given in the station's time zone (the          *)
(* conversion from UTC of lines 141-146 is not modelled).                  *)
(***************************************************************************)
MEDIA_BASE == "https://kzfr-media.s3.us-west-000.backblazeb2.com/audio/"

JAZZ_HOUR    == "Jazz Hour"
PHILOSOPHERS == "Philosophers on Culture!"
KENNETH      == "What's the Frequency, Kenneth?"

RawItem(id, title, start, url, has_image, has_audio) ==
    [id |-> id, title |-> title, start |-> start, url |-> url, filesize |-> 1000 * id,
     has_image |-> has_image, has_audio |-> has_audio]

raw_jazz_1 ==
    RawItem(1, JAZZ_HOUR, DateTime(2023, 7, 20, 17, 0, 0),
            MEDIA_BASE \o "jazz-hour/jazz-hour_2023-07-20_17-00-00.mp3", TRUE, TRUE)
raw_jazz_2 ==
    RawItem(2, JAZZ_HOUR, DateTime(2023, 7, 20, 17, 0, 30),
            MEDIA_BASE \o "jazz-hour/jazz-hour_2023-07-20_17-00-30.mp3", FALSE, TRUE)
raw_phil_3 ==
    RawItem(3, PHILOSOPHERS, DateTime(2023, 11, 9, 17, 0, 0),
            MEDIA_BASE \o "philosophers-on-culture/special-broadcast.mp3", TRUE, TRUE)
raw_no_audio ==
    RawItem(4, JAZZ_HOUR, DateTime(2023, 7, 27, 17, 0, 0), None, TRUE, FALSE)
raw_jazz_5 ==
    RawItem(5, JAZZ_HOUR, DateTime(2023, 7, 21, 9, 30, 0),
            MEDIA_BASE \o "jazz-hour/jazz-hour_2023-07-21_09-30-00.mp3", TRUE, TRUE)

\* The titles a shows-list response may hold, in the order sorted() gives them.
TitleOrder == <<JAZZ_HOUR, PHILOSOPHERS, KENNETH>>

ShowsListResponses ==
    {<<>>, <<JAZZ_HOUR>>, <<KENNETH, JAZZ_HOUR, PHILOSOPHERS, JAZZ_HOUR>>}

PagePayloads == {<<>>, <<raw_jazz_1>>, <<raw_jazz_2, raw_phil_3>>, <<raw_no_audio>>}

\* The 'links' object of a page response: a next link, a null one, or none.
LinksWithNext == {[next |-> "https://kzfr.studio.creek.org/api/archives?page=next"]}
LinksWithoutNext == {[next |-> None], [prev |-> None]}

MaxPages == 3

\* The responses the API may give to the request of page p; the archive has at
\* most MaxPages pages.
PageResponses(p) ==
    [data : PagePayloads,
     links : IF p < MaxPages THEN LinksWithNext \cup LinksWithoutNext
             ELSE LinksWithoutNext]

\* What urlopen / json.load / a missing key may raise.
FetchErrors == {"URLError", "KeyError"}

\* dict.get(key)
DictGet(d, key) == IF key \in DOMAIN d THEN d[key] ELSE None

\* The truth value of an optional string.
Truthy(v) == v \notin {None, ""}

\* src/app.py 114: archives_dict['links'].get('next')
HasNextLink(links) == Truthy(DictGet(links, "next"))

\* A slip that assigns instead of extending.
ExtendDataOverwrites(data, payload) == payload

\* src/app.py 112: archives_dict_data += archives_dict['data']
ExtendData(data, payload) == data \o payload

\* src/app.py 120: sorted(set([x['title'] for x in shows_dict['data']]))
SortedTitleSet(titles) ==
    LET present == {titles[i] : i \in 1..Len(titles)}
    IN  SelectSeq(TitleOrder, LAMBDA t : t \in present)

\* src/app.py 125-137 and 147-149: one row of archives_df
BuildRow(item) ==
    [id |-> item.id, start |-> item.start, title |-> item.title,
     image_url |-> IF item.has_image THEN "image-of-" \o item.title ELSE None,
     filesize |-> item.filesize,
     url |-> item.url,
     start_readable |-> strftime_readable(item.start)]

BuildRows(items) == [i \in 1..Len(items) |-> BuildRow(items[i])]

\* Whether building the table raises KeyError (a record with no 'audio').
BuildRaises(items) == \E i \in 1..Len(items) : ~items[i].has_audio

(***************************************************************************)
(* The cache: st.cache_data(ttl = 60 * 15) keeps one entry, which a read   *)
(* finds only while it is younger than ttl.                                *)
(***************************************************************************)
ttl == 60 * 15

MaxAge == 1800

AgeSteps == {300, 600}

NoValue == <<>>

\* The cache with no entry.
NoEntry == [value |-> NoValue, age |-> -1]

NoResult == [kind |-> "none", value |-> NoValue, exc |-> ""]
Returned(value) == [kind |-> "value", value |-> value, exc |-> ""]
Raised(exc) == [kind |-> "raised", value |-> NoValue, exc |-> exc]

\* prev: the value of the entry get() found; hit: it was younger than ttl, age
\* old, and was returned; expired: it was too old; failed: the function raised.
NoCtx == [prev |-> NoValue, age |-> -1, expired |-> FALSE, failed |-> FALSE, hit |-> FALSE]

\* A stale-on-error policy the code does not have.
ServeStaleOnError(prev, exc) == IF prev # NoValue THEN Returned(prev) ELSE Raised(exc)

\* src/app.py 207 under the decorator of line 67: the call is made with no
\* handler around it, and the cache keeps no expired value to fall back on.
OnRefreshError(prev, exc) == Raised(exc)

CacheInit ==
    /\ cache = NoEntry
    /\ fetch_pc = "idle"
    /\ shows_dict = <<>>
    /\ archives_page = 1
    /\ archives_dict_data = <<>>
    /\ requested = <<>>
    /\ responses = <<>>
    /\ get_ctx = NoCtx
    /\ result = NoResult

IsCached == cache # NoEntry

IsFresh == IsCached /\ cache.age < ttl

\* Time passes between two interactions.
Tick ==
    /\ fetch_pc = "idle"
    /\ IsCached
    /\ \E dt \in AgeSteps :
          /\ cache.age + dt <= MaxAge
          /\ cache' = [cache EXCEPT !.age = @ + dt]
    /\ UNCHANGED <<fetch_pc, shows_dict, archives_page, archives_dict_data,
                   requested, responses, get_ctx, result>>
    /\ UNCHANGED <<slug_vars, page_vars>>

\* get() finds an entry younger than ttl.
GetHit ==
    /\ fetch_pc = "idle"
    /\ IsFresh
    /\ result' = Returned(cache.value)
    /\ get_ctx' = [prev |-> cache.value, age |-> cache.age, expired |-> FALSE,
                   failed |-> FALSE, hit |-> TRUE]
    /\ UNCHANGED <<cache, fetch_pc, shows_dict, archives_page, archives_dict_data,
                   requested, responses>>
    /\ UNCHANGED <<slug_vars, page_vars>>

\* get() finds no entry, or one that has expired (which the cache drops), and
\* the function starts to run.
GetMiss ==
    /\ fetch_pc = "idle"
    /\ ~IsFresh
    /\ get_ctx' = [prev |-> cache.value, age |-> -1, expired |-> IsCached,
                   failed |-> FALSE, hit |-> FALSE]
    /\ cache' = NoEntry
    /\ fetch_pc' = "shows"
    /\ archives_page' = 1
    /\ archives_dict_data' = <<>>
    /\ shows_dict' = <<>>
    /\ requested' = <<>>
    /\ responses' = <<>>
    /\ result' = NoResult
    /\ UNCHANGED <<slug_vars, page_vars>>

\* The function raises: nothing is stored and the caller gets the exception.
FetchFails(exc) ==
    /\ fetch_pc' = "idle"
    /\ get_ctx' = [get_ctx EXCEPT !.failed = TRUE]
    /\ result' = OnRefreshError(get_ctx.prev, exc)
    /\ UNCHANGED <<cache, shows_dict, archives_page, archives_dict_data>>

\* src/app.py 103: the shows-list request
RequestShowsList ==
    /\ fetch_pc = "shows"
    /\ \/ \E exc \in FetchErrors : FetchFails(exc) /\ UNCHANGED <<requested, responses>>
       \/ \E titles \in ShowsListResponses :
             /\ shows_dict' = titles
             /\ fetch_pc' = "pages"
             /\ UNCHANGED <<cache, archives_page, archives_dict_data, requested,
                            responses, get_ctx, result>>
    /\ UNCHANGED <<slug_vars, page_vars>>

\* src/app.py 108-117: one turn of the loop, the request of page archives_page
RequestPage ==
    /\ fetch_pc = "pages"
    /\ requested' = Append(requested, archives_page)
    /\ \/ \E exc \in FetchErrors : FetchFails(exc) /\ UNCHANGED responses
       \/ \E archives_dict \in PageResponses(archives_page) :
             /\ responses' = Append(responses, archives_dict)
             /\ archives_dict_data' = ExtendData(archives_dict_data, archives_dict.data)
             /\ IF HasNextLink(archives_dict.links)
                THEN archives_page' = archives_page + 1 /\ fetch_pc' = "pages"
                ELSE archives_page' = archives_page /\ fetch_pc' = "build"
             /\ UNCHANGED <<cache, shows_dict, get_ctx, result>>
    /\ UNCHANGED <<slug_vars, page_vars>>

\* src/app.py 119-151: the titles and the table are built, stored and returned
BuildAndStore ==
    /\ fetch_pc = "build"
    /\ IF BuildRaises(archives_dict_data)
       THEN FetchFails("KeyError")
       ELSE LET value == <<SortedTitleSet(shows_dict), BuildRows(archives_dict_data)>>
            IN  /\ cache' = [value |-> value, age |-> 0]
                /\ result' = Returned(value)
                /\ fetch_pc' = "idle"
                /\ UNCHANGED <<shows_dict, archives_page, archives_dict_data, get_ctx>>
    /\ UNCHANGED <<requested, responses>>
    /\ UNCHANGED <<slug_vars, page_vars>>

(***************************************************************************)
(* The page script (src/app.py 207-511).  Streamlit runs the whole script  *)
(* once when a session opens and once more after each interaction;         *)
(* session_state lives across the runs of one session, local names do not. *)
(***************************************************************************)
SHOW_TIME_SELECTION_OPTIONS ==
    <<"Search for a show in the archive", "Search for a show NOT in the archive">>

NoRow == [none |-> TRUE]

\* src/app.py 154-159: the status of the HEAD request, or the exception raised
ProbeOutcomes == {"200", "404", "RequestException"}

check_if_url_exists(probe) == probe = "200"

\* src/app.py 251, 371: archives_df[archives_df['title'] == show_selected]
filtered_df(df, show_selected) == SelectSeq(df, LAMBDA r : r.title = show_selected)

RECURSIVE UniqueFrom(_, _, _)
UniqueFrom(seq, i, seen) ==
    IF i > Len(seq) THEN <<>>
    ELSE IF seq[i] \in seen THEN UniqueFrom(seq, i + 1, seen)
    ELSE <<seq[i]>> \o UniqueFrom(seq, i + 1, seen \cup {seq[i]})

\* src/app.py 252: filtered_df['start_readable'].unique().tolist()
time_options(filtered) ==
    UniqueFrom([i \in 1..Len(filtered) |-> filtered[i].start_readable], 1, {})

\* A slip that takes the last matching row (.iloc[-1]).
ModeALookupLast(filtered, time_selected) ==
    LET by_key == SelectSeq(filtered,
                            LAMBDA r : strftime_canonical(r.start) = time_selected)
        by_readable == SelectSeq(filtered, LAMBDA r : r.start_readable = time_selected)
    IN  IF by_key # <<>> THEN by_key[Len(by_key)]
        ELSE IF by_readable # <<>> THEN by_readable[Len(by_readable)]
        ELSE NoRow

\* src/app.py 300-323: the first row whose canonical key is the time selected,
\* else the first whose start_readable is, else none
ModeALookup(filtered, time_selected) ==
    LET by_key == SelectSeq(filtered,
                            LAMBDA r : strftime_canonical(r.start) = time_selected)
        by_readable == SelectSeq(filtered, LAMBDA r : r.start_readable = time_selected)
    IN  IF by_key # <<>> THEN by_key[1]
        ELSE IF by_readable # <<>> THEN by_readable[1]
        ELSE NoRow

\* src/app.py 435-445
philosophers_on_culture_and_whats_the_frequency_kenneth_time_swap_dict ==
    ("2023-11-09_17-00-00" :> "2023-11-16_17-00-00") @@
    ("2023-10-26_17-00-00" :> "2023-11-02_17-00-00") @@
    ("2023-10-12_17-00-00" :> "2023-10_19-17-00-00") @@
    ("2023-09-28_17-00-00" :> "2023-10_05-17-00-00") @@
    ("2023-09-14_17-00-00" :> "2023-09_21-17-00-00") @@
    ("2023-08-31_17-00-00" :> "2023-09_07-17-00-00") @@
    ("2023-08-17_17-00-00" :> "2023-08-24_17-00-00") @@
    ("2023-08-03_17-00-00" :> "2023-08-10_17-00-00") @@
    ("2023-07-20_17-00-00" :> "2023-07-27_17-00-00")

\* src/app.py 446-451: the dict of the values back to their keys
whats_the_frequency_kenneth_time_swap_and_philosophers_on_culture_dict ==
    LET fwd == philosophers_on_culture_and_whats_the_frequency_kenneth_time_swap_dict
    IN  [v \in {fwd[k] : k \in DOMAIN fwd} |-> CHOOSE k \in DOMAIN fwd : fwd[k] = v]

\* src/app.py 452-455: the second dict's entries win where both have a key
time_swap_dict ==
    whats_the_frequency_kenneth_time_swap_and_philosophers_on_culture_dict @@
    philosophers_on_culture_and_whats_the_frequency_kenneth_time_swap_dict

\* src/app.py 457-463: the time key and the slug after the override
Override(time_selected, slug) ==
    IF time_selected \in DOMAIN time_swap_dict
    THEN [time_selected |-> time_swap_dict[time_selected],
          normalized_show_name |-> IF slug = "philosophers-on-culture"
                                   THEN "whats-the-frequency-kenneth"
                                   ELSE "philosophers-on-culture"]
    ELSE [time_selected |-> time_selected, normalized_show_name |-> slug]

\* src/app.py 465-468
CandidateUrl(slug, time_selected) ==
    MEDIA_BASE \o slug \o "/" \o slug \o "_" \o time_selected \o ".mp3"

\* src/app.py 354-367: the canonical format first, then the readable one, else None
ParseTimeSelected(query_params_time_selected) ==
    LET canonical == strptime(query_params_time_selected, CANONICAL_FORMAT)
        readable == strptime(query_params_time_selected, READABLE_FORMAT)
    IN  IF canonical # ValueError THEN canonical
        ELSE IF readable # ValueError THEN readable
        ELSE NoDateTime

EmptySession ==
    [empty |-> TRUE, show_selected |-> None, show_time_selection |-> None,
     time_selected |-> None]

NoParams == <<>>

\* What a run renders.  mode is "A", "B" or "none"; time_in and slug_in are the
\* time key and slug of Mode B before the override, time_out and slug_out after.
BlankPage ==
    [outcome |-> "none", exc |-> "", first_time_running |-> FALSE, opened |-> NoParams,
     mode |-> "none", show |-> None, link_time |-> None, input |-> NoDateTime,
     time_in |-> None, slug_in |-> None, time_out |-> None, slug_out |-> None,
     url |-> None, probe |-> "none", episode |-> NoRow, shown_time |-> None,
     image_url |-> None, filesize |-> 0]

RunResult(ss, qp, pg) == [session_state |-> ss, query_params |-> qp, page |-> pg]

\* src/app.py 293-298, 427-432: query_params.from_dict
LinkParams(show_selected, time_selected) ==
    [show_selected |-> show_selected, time_selected |-> time_selected]

\* src/app.py 277-340: Mode A.  ss holds show_selected and show_time_selection;
\* picked is the value of the 'time_selected' selectbox.
ModeA(ss, pg, df, picked, probe) ==
    LET filtered == filtered_df(df, ss.show_selected)
        pgA == [pg EXCEPT !.mode = "A"]
    IN
    IF time_options(filtered) = <<>>
    THEN RunResult(ss, NoParams, [pgA EXCEPT !.outcome = "no_show_times"])
    ELSE
    LET ss2 == [ss EXCEPT !.time_selected = picked]
        qp2 == LinkParams(ss2.show_selected, ss2.time_selected)
        show_series == ModeALookup(filtered, ss2.time_selected)
        pg2 == [pgA EXCEPT !.link_time = ss2.time_selected]
    IN
    IF ~Truthy(ss2.time_selected)
    THEN RunResult(ss2, NoParams, [pgA EXCEPT !.outcome = "idle"])
    ELSE IF show_series = NoRow
    THEN RunResult(ss2, qp2, [pg2 EXCEPT !.outcome = "not_found"])
    ELSE IF check_if_url_exists(probe)
    THEN RunResult(ss2, qp2,
                   [pg2 EXCEPT !.outcome = "presented", !.probe = probe,
                               !.episode = show_series, !.url = show_series.url,
                               !.shown_time = ss2.time_selected,
                               !.image_url = show_series.image_url,
                               !.filesize = show_series.filesize])
    ELSE RunResult(ss2, qp2,
                   [pg2 EXCEPT !.outcome = "not_found", !.probe = probe,
                               !.episode = show_series, !.url = show_series.url])

\* src/app.py 434-497: Mode B from the link written on: the override, the URL,
\* the time to display and the probe.
ModeBResolve(ss, pg, df, probe) ==
    LET qp == LinkParams(ss.show_selected, ss.time_selected)
        slug == normalized_show_name(ss.show_selected)
        swapped == Override(ss.time_selected, slug)
        ss2 == [ss EXCEPT !.time_selected = swapped.time_selected]
        url == CandidateUrl(swapped.normalized_show_name, ss2.time_selected)
        parsed == strptime(ss2.time_selected, CANONICAL_FORMAT)
        filtered == filtered_df(df, ss.show_selected)
        filesize_df == SelectSeq(df, LAMBDA r : r.url = url)
        pg2 == [pg EXCEPT !.link_time = ss.time_selected,
                          !.time_in = ss.time_selected, !.slug_in = slug,
                          !.time_out = ss2.time_selected,
                          !.slug_out = swapped.normalized_show_name,
                          !.url = url]
    IN
    IF parsed = ValueError      \* line 471 raises, nothing handles it
    THEN RunResult(ss2, qp, [pg2 EXCEPT !.outcome = "crash", !.exc = "ValueError"])
    ELSE IF check_if_url_exists(probe)
    THEN RunResult(ss2, qp,
                   [pg2 EXCEPT !.outcome = "presented", !.probe = probe,
                               !.shown_time = strftime_readable(parsed),
                               !.image_url = IF Len(filtered) > 0
                                             THEN filtered[1].image_url ELSE None,
                               !.filesize = IF Len(filesize_df) > 0
                                            THEN filesize_df[1].filesize ELSE 0])
    ELSE RunResult(ss2, qp, [pg2 EXCEPT !.outcome = "not_found", !.probe = probe])

\* src/app.py 342-432: Mode B up to the time selected.  ss holds show_selected and
\* show_time_selection and still the time_selected the run started with; qp is the
\* script's query_params dict; ui.date_time is what the user entered in the date
\* and time inputs (NoDateTime when the inputs show their defaults) and ui.now is
\* the clock, the default of inputs given no value.
ModeB(ss, pg, df, qp, first_time_running, ui, probe) ==
    LET pgB == [pg EXCEPT !.mode = "B"]
        filtered == filtered_df(df, ss.show_selected)
        \* lines 350-367
        looked == ~Truthy(ss.time_selected)
        have_time_param == looked /\ "time_selected" \in DOMAIN qp
        from_params == IF have_time_param THEN ParseTimeSelected(qp["time_selected"])
                       ELSE NoDateTime
        \* lines 389-396: query_params_time_selected_datetime for the inputs
        has_value == looked \/ Len(filtered) > 0
        value == IF looked THEN from_params
                 ELSE IF Len(filtered) > 0 THEN filtered[1].start ELSE NoDateTime
        default == IF has_value THEN value ELSE ui.now
        entered == IF ui.date_time # NoDateTime THEN ui.date_time ELSE default
    IN
    IF first_time_running /\ have_time_param
    THEN \* lines 384-387
         IF from_params = NoDateTime
         THEN RunResult(ss, NoParams,
                        [pgB EXCEPT !.outcome = "crash", !.exc = "AttributeError"])
         ELSE ModeBResolve([ss EXCEPT !.time_selected = strftime_canonical(from_params)],
                           pgB, df, probe)
    ELSE \* lines 388-424
         IF entered = NoDateTime
         THEN RunResult(ss, NoParams,
                        [pgB EXCEPT !.outcome = "crash", !.exc = "AttributeError"])
         ELSE ModeBResolve(
                  [ss EXCEPT !.time_selected =
                       strftime_date(entered) \o "_" \o strftime_time(entered)],
                  [pgB EXCEPT !.input = ui.date_time], df, probe)

\* list.index of line 235, or None
ShowFromParams(titles, qp) ==
    IF "show_selected" \in DOMAIN qp
       /\ \E i \in 1..Len(titles) : titles[i] = qp["show_selected"]
    THEN qp["show_selected"]
    ELSE None

\* A slip that opens every link in Mode A.
RestoredModeIndexAlwaysArchive(qp) == 1

\* src/app.py 254-259: the index (from 1) of the mode a run starts in when the
\* session holds none: Mode B whenever the link carries a time
RestoredModeIndex(qp) == IF "time_selected" \in DOMAIN qp THEN 2 ELSE 1

\* src/app.py 218
CatalogTooSmall(show_options) == Len(show_options) <= 1

\* src/app.py 207-511: one run of the script.  ss is the session state and url the
\* address the run starts with; ui holds the widgets' values as the user left them.
RunPage(titles, df, ss, url, ui, probe) ==
    LET opened == IF ss.empty THEN url ELSE NoParams
        pg0 == [BlankPage EXCEPT !.opened = opened]
    IN
    IF CatalogTooSmall(titles)
    THEN RunResult(ss, url, [pg0 EXCEPT !.outcome = "no_shows"])
    ELSE
    LET \* lines 222-230
        qp == opened
        first_time_running == ss.empty /\ Cardinality(DOMAIN qp) = 2
        \* lines 232-244: the selectbox shows the link's show in a new session and
        \* the user's choice afterwards
        show_selected == IF ss.empty THEN ShowFromParams(titles, qp) ELSE ui.show
        ss1 == [ss EXCEPT !.empty = FALSE, !.show_selected = show_selected]
        pg1 == [pg0 EXCEPT !.first_time_running = first_time_running,
                           !.show = show_selected]
    IN
    IF ~Truthy(show_selected)
    THEN RunResult(ss1, NoParams, [pg1 EXCEPT !.outcome = "idle"])
    ELSE
    LET \* lines 254-275: the radio's default when the session holds no choice
        idx == RestoredModeIndex(qp)
        selection == IF ~Truthy(ss.show_time_selection)
                     THEN SHOW_TIME_SELECTION_OPTIONS[idx]
                     ELSE SHOW_TIME_SELECTION_OPTIONS[ui.mode]
        ss2 == [ss1 EXCEPT !.show_time_selection = selection]
        \* line 285: the selectbox offers time_options; a time left in the session
        \* under the same key by Mode B may be its value
        filtered == filtered_df(df, show_selected)
        picked == IF ss.empty
                  THEN (IF time_options(filtered) # <<>>
                        THEN time_options(filtered)[1] ELSE None)
                  ELSE ui.time
    IN
    IF selection = SHOW_TIME_SELECTION_OPTIONS[1]
    THEN ModeA(ss2, pg1, df, picked, probe)
    ELSE ModeB(ss2, pg1, df, qp, first_time_running,
               IF ss.empty THEN [ui EXCEPT !.date_time = NoDateTime] ELSE ui, probe)

(***************************************************************************)
(* The page specification: sessions opened from links and interactions in  *)
(* an open session, over what the fetch returned.                          *)
(***************************************************************************)
NoShare == [BlankPage EXCEPT !.outcome = "no_share"]

\* What read_studio_creek_website_data may have returned (line 207).
Catalogs == {SortedTitleSet(titles) : titles \in ShowsListResponses}

ArchiveTables == {<<>>, BuildRows(<<raw_jazz_1, raw_jazz_2, raw_jazz_5, raw_phil_3>>)}

\* The dates and times a user enters in Mode B.
ModelDateTimes ==
    {DateTime(2023, 11, 9, 17, 0, 0), DateTime(2023, 11, 16, 17, 0, 0),
     DateTime(2023, 10, 12, 17, 0, 0), DateTime(2023, 7, 20, 17, 0, 0),
     DateTime(2023, 7, 21, 9, 30, 0)}

NowChoices == {DateTime(2024, 1, 15, 10, 45, 0)}

\* The parameters of the links a session may be opened with.
LinkShows == {JAZZ_HOUR, PHILOSOPHERS, "Unlisted Show"}
LinkTimes == {"2023-11-09_17-00-00", "07/20/2023 @ 05:00 PM", "next tuesday"}
LinkKeys == {"show_selected", "time_selected", "ref"}

LinkValues(key) ==
    CASE key = "show_selected" -> LinkShows
      [] key = "time_selected" -> LinkTimes
      [] key = "ref" -> {"newsletter"}

Links == UNION {{f \in [keys -> LinkShows \cup LinkTimes \cup {"newsletter"}] :
                    \A k \in keys : f[k] \in LinkValues(k)} : keys \in SUBSET LinkKeys}

DefaultUi(now) ==
    [show |-> None, mode |-> 1, time |-> None, date_time |-> NoDateTime, now |-> now]

\* The widgets as a user may leave them in an open session.
UiChoices(titles, df, ss) ==
    LET shows == {titles[i] : i \in 1..Len(titles)} \cup {None}
        offered(show) == LET opts == time_options(filtered_df(df, show))
                         IN  {opts[i] : i \in 1..Len(opts)} \cup {ss.time_selected}
    IN  UNION {
          {[show |-> show, mode |-> 1, time |-> t, date_time |-> NoDateTime, now |-> now] :
              t \in offered(show), now \in NowChoices}
          \cup
          {[show |-> show, mode |-> 2, time |-> None, date_time |-> dt, now |-> now] :
              dt \in ModelDateTimes \cup {NoDateTime}, now \in NowChoices}
          : show \in shows}

PageInit ==
    /\ show_titles \in Catalogs
    /\ archives_df \in ArchiveTables
    /\ session_state = EmptySession
    /\ query_params = NoParams
    /\ page = BlankPage
    /\ shared_from = NoShare

Rendered(r, from) ==
    /\ session_state' = r.session_state
    /\ query_params' = r.query_params
    /\ page' = r.page
    /\ shared_from' = from
    /\ UNCHANGED <<show_titles, archives_df>>
    /\ UNCHANGED <<slug_vars, cache_vars>>

\* A new session is opened at some address.  The model follows one session at a
\* time: the next visitor's session opens once this one has closed.
OpenLink ==
    /\ session_state.empty
    /\ \E url \in Links, probe \in ProbeOutcomes, now \in NowChoices :
          Rendered(RunPage(show_titles, archives_df, EmptySession, url,
                           DefaultUi(now), probe), NoShare)

\* The session ends (the tab is closed): its state is gone.
CloseSession ==
    /\ ~session_state.empty
    /\ session_state' = EmptySession
    /\ query_params' = NoParams
    /\ page' = BlankPage
    /\ shared_from' = NoShare
    /\ UNCHANGED <<show_titles, archives_df>>
    /\ UNCHANGED <<slug_vars, cache_vars>>

\* A new session is opened at the address the page wrote for the last selection.
OpenSharedLink ==
    /\ page.link_time # None
    /\ query_params # NoParams
    /\ \E probe \in ProbeOutcomes, now \in NowChoices :
          Rendered(RunPage(show_titles, archives_df, EmptySession, query_params,
                           DefaultUi(now), probe), page)

\* The user changes a widget of an open session and the script runs again.
Interact ==
    /\ ~session_state.empty
    /\ \E ui \in UiChoices(show_titles, archives_df, session_state),
          probe \in ProbeOutcomes :
          Rendered(RunPage(show_titles, archives_df, session_state, query_params,
                           ui, probe), NoShare)

(***************************************************************************)
(* The specifications.                                                     *)
(***************************************************************************)
SlugIdle ==
    /\ norm_title = ""
    /\ norm_pc = "off"
    /\ norm_once = None
    /\ norm_twice = None

PageIdle ==
    /\ show_titles = <<>>
    /\ archives_df = <<>>
    /\ session_state = EmptySession
    /\ query_params = NoParams
    /\ page = BlankPage
    /\ shared_from = NoShare

Init == PageInit /\ SlugIdle /\ CacheInit

Next == OpenLink \/ OpenSharedLink \/ Interact \/ CloseSession

Spec == Init /\ [][Next]_vars

CacheSpecInit == CacheInit /\ SlugIdle /\ PageIdle

CacheNext == Tick \/ GetHit \/ GetMiss \/ RequestShowsList \/ RequestPage \/ BuildAndStore

SpecCache == CacheSpecInit /\ [][CacheNext]_vars

SlugSpecInit == SlugInit /\ CacheInit /\ PageIdle

SlugNext == NormalizeOnce \/ NormalizeTwice

SpecSlug == SlugSpecInit /\ [][SlugNext]_vars

(***************************************************************************)
(* The cache and the fetch (SpecCache).                                    *)
(***************************************************************************)

RECURSIVE FlattenPages(_)
FlattenPages(pages) ==
    IF pages = <<>> THEN <<>> ELSE Head(pages).data \o FlattenPages(Tail(pages))

RECURSIVE SumOfSizes(_)
SumOfSizes(pages) ==
    IF pages = <<>> THEN 0 ELSE Len(Head(pages).data) + SumOfSizes(Tail(pages))

NextLinkPresent(response) ==
    "next" \in DOMAIN response.links /\ response.links["next"] \notin {None, ""}

\* C2: the loop requests pages 1, 2, 3, ... in sequence, goes on exactly while the
\* last response has a next link, and the accumulated list is the pages' payloads
\* in page order, its length the sum of their sizes.
C2_PaginationInOrderAndComplete ==
    /\ requested = [i \in 1..Len(requested) |-> i]
    /\ Len(requested) - Len(responses) \in {0, 1}
    /\ \A i \in 1..(Len(responses) - 1) : NextLinkPresent(responses[i])
    /\ fetch_pc \in {"pages", "build"} =>
          /\ Len(requested) = Len(responses)
          /\ archives_dict_data = FlattenPages(responses)
          /\ Len(archives_dict_data) = SumOfSizes(responses)
    /\ fetch_pc = "pages" =>
          /\ archives_page = Len(responses) + 1
          /\ \A i \in 1..Len(responses) : NextLinkPresent(responses[i])
    /\ fetch_pc = "build" =>
          /\ responses # <<>>
          /\ ~NextLinkPresent(responses[Len(responses)])

\* C2's case: the loop has ended after three pages that held records.
C2_Witness ==
    /\ fetch_pc = "build"
    /\ Len(responses) = 3
    /\ \A i \in 1..3 : Len(responses[i].data) > 0
    /\ Len(archives_dict_data) >= 4

(***************************************************************************)
(* Slug normalisation (SpecSlug).                                          *)
(***************************************************************************)
RECURSIVE WithoutHyphens(_)
WithoutHyphens(s) ==
    IF s = "" THEN ""
    ELSE (IF Head(s) = "-" THEN "" ELSE Head(s)) \o WithoutHyphens(Tail(s))

HasHyphen(s) == \E i \in 1..Len(s) : Ch(s, i) = "-"

\* C6 as stated: normalising a normalised title changes nothing.
C6_NormalizeIdempotent ==
    norm_pc = "twice" => norm_twice = norm_once

\* C6 as amended: the second normalisation deletes the hyphens the first one put
\* in place of spaces and changes nothing else, so it is the identity exactly on
\* the slugs that hold no hyphen.
C6_SecondPassDropsHyphens ==
    norm_pc = "twice" =>
        /\ norm_twice = WithoutHyphens(norm_once)
        /\ (norm_twice = norm_once) <=> ~HasHyphen(norm_once)

\* C6's case: a title with a space, normalised twice.
C6_Witness ==
    /\ norm_pc = "twice"
    /\ norm_title = "A b"
    /\ norm_once = "a-b"
    /\ norm_twice = "ab"

(***************************************************************************)
(* The page (Spec).                                                        *)
(***************************************************************************)
RanModeA == page.mode = "A" /\ page.outcome \in {"presented", "not_found"}

\* The rows of the show of the last run that match its time string, by either key.
MatchesTime(row, t) == strftime_canonical(row.start) = t \/ row.start_readable = t

MatchingRows ==
    {i \in 1..Len(archives_df) :
        archives_df[i].title = page.show /\ MatchesTime(archives_df[i], page.link_time)}

KeyMatchingRows ==
    {i \in MatchingRows : strftime_canonical(archives_df[i].start) = page.link_time}

Lowest(S) == CHOOSE i \in S : \A j \in S : i <= j

ExpectedRow ==
    archives_df[IF KeyMatchingRows # {} THEN Lowest(KeyMatchingRows)
                ELSE Lowest(MatchingRows)]

\* C3 as stated: in Mode A, whenever an episode of the title matches the time
\* string, that episode's record is presented; "no show found" is reported only
\* when none matches.
C3_MatchIsAlwaysPresented ==
    RanModeA =>
        /\ MatchingRows # {} => (page.outcome = "presented" /\ page.episode = ExpectedRow)
        /\ page.outcome = "not_found" => MatchingRows = {}

\* C3 as amended: in Mode A the first episode of the title that matches the time
\* string (by canonical key, else by start_readable) is presented when the probe
\* of its URL answers 200; "no show found" is reported when no episode matches or
\* when the probe of the matched episode's URL does not answer 200.
C3_MatchIsPresentedIfProbeSucceeds ==
    RanModeA =>
        /\ page.outcome = "presented" <=> (MatchingRows # {} /\ page.probe = "200")
        /\ MatchingRows # {} =>
              /\ page.episode = ExpectedRow
              /\ page.url = ExpectedRow.url
              /\ page.probe \in ProbeOutcomes
        /\ MatchingRows = {} => (page.episode = NoRow /\ page.probe = "none")

\* C3's case: two episodes share the time string and the first is presented.
C3_Witness ==
    /\ RanModeA
    /\ page.outcome = "presented"
    /\ Cardinality(MatchingRows) = 2
    /\ page.episode.id = 1

Opened == shared_from # NoShare

OverrideApplied == page.mode = "B" /\ page.time_in # None /\ page.time_in # page.time_out

\* C5: wherever the override applied, applying it to its result gives back the
\* original time key and the original slug.
C5_OverrideIsInvolution ==
    OverrideApplied =>
        Override(page.time_out, page.slug_out)
            = [time_selected |-> page.time_in, normalized_show_name |-> page.slug_in]

\* C7: the page stops with "no shows found" exactly when the catalog is empty.
C7_HaltsIffCatalogEmpty ==
    page.outcome # "none" => (page.outcome = "no_shows" <=> Len(show_titles) = 0)

\* C8: Mode B with an entered date and time ends either presenting the record,
\* with the readable time and the guessed URL, or reporting "no show found";
\* nothing else is raised.
C8_ModeBIsTotal ==
    (page.mode = "B" /\ page.input # NoDateTime) =>
        /\ page.outcome \in {"presented", "not_found"}
        /\ page.outcome = "presented" =>
              (page.shown_time = strftime_readable(page.input) \/ OverrideApplied)

\* C9: for a show that is neither of the two mislabeled ones, the Mode B URL is
\* built from the show's own slug and the time key as entered.
C9_OverrideOnlyForTheTwoShows ==
    (/\ page.mode = "B"
     /\ page.url # None
     /\ page.slug_in \notin {"philosophers-on-culture", "whats-the-frequency-kenneth"})
        => page.url = CandidateUrl(page.slug_in, page.time_in)

OpenedWithUnparseableTime ==
    /\ DOMAIN page.opened = {"show_selected", "time_selected"}
    /\ \E i \in 1..Len(show_titles) : show_titles[i] = page.opened["show_selected"]
    /\ strptime(page.opened["time_selected"], CANONICAL_FORMAT) = ValueError
    /\ strptime(page.opened["time_selected"], READABLE_FORMAT) = ValueError

\* C10: a session opened with show_selected and a time_selected that parses in
\* neither format raises nothing: it shows the default inputs or "no show found".
C10_UnparseableTimeGivesUpCleanly ==
    OpenedWithUnparseableTime => page.outcome \in {"presented", "not_found", "no_shows"}

====
